---- MODULE Spec2Model ----
(***************************************************************************)
(* Model of the Sulu headless API client (src/src/client.js).              *)
(*                                                                         *)
(* Strings are sequences of one-character strings, so that joining,        *)
(* replaceAll, URL resolution and form-urlencoding are computed and not    *)
(* assumed.  The tokens "http:" and ".json" stand for the five characters  *)
(* they spell: no operation of the client looks inside them.               *)
(***************************************************************************)
EXTENDS Integers, Sequences, FiniteSets

VARIABLES cfg, built, calls

vars == <<cfg, built, calls>>

(***************************************************************************)
(* Bounds of the model.                                                    *)
(***************************************************************************)
MaxPathLen == 4
MaxCalls == 1
MaxInFlight == 2          \* calls issued on one client before any has settled

(***************************************************************************)
(* Strings.                                                                *)
(***************************************************************************)
Sep == "/"

PathChars == {"/", "a", "?"}

Strs(alphabet, n) == UNION {[1..k -> alphabet] : k \in 1..n}

StartsWith(s, pat) == Len(s) >= Len(pat) /\ SubSeq(s, 1, Len(pat)) = pat

Drop(s, n) == SubSeq(s, n + 1, Len(s))

\* Array.prototype.join
RECURSIVE Join(_, _)
Join(segs, sep) ==
    IF segs = <<>> THEN <<>>
    ELSE IF Len(segs) = 1 THEN segs[1]
    ELSE segs[1] \o <<sep>> \o Join(Tail(segs), sep)

\* String.prototype.replaceAll with a string pattern: one left-to-right pass
\* over non-overlapping occurrences; replaced text is not scanned again.
RECURSIVE ReplaceAll(_, _, _)
ReplaceAll(s, pat, rep) ==
    IF s = <<>> THEN <<>>
    ELSE IF StartsWith(s, pat) THEN rep \o ReplaceAll(Drop(s, Len(pat)), pat, rep)
    ELSE <<s[1]>> \o ReplaceAll(Tail(s), pat, rep)

\* First index of s holding one of chars, Len(s) + 1 when there is none.
RECURSIVE IndexOf(_, _, _)
IndexOf(s, chars, i) ==
    IF i > Len(s) THEN Len(s) + 1
    ELSE IF s[i] \in chars THEN i
    ELSE IndexOf(s, chars, i + 1)

RECURSIVE SkipSlashes(_)
SkipSlashes(s) == IF s # <<>> /\ s[1] = Sep THEN SkipSlashes(Tail(s)) ELSE s

(***************************************************************************)
(* The URL primitive the client builds on: new URL(input, base), the       *)
(* search setter, URLSearchParams and toString, for http URLs.             *)
(***************************************************************************)
Scheme == "http:"

InvalidUrl == [ok |-> FALSE, host |-> <<>>, path |-> <<>>, hasQuery |-> FALSE, query |-> <<>>]

\* s starts at the path: the path runs to the first "?", the query follows it.
ParsePathQuery(s, host) ==
    LET q == IndexOf(s, {"?"}, 1)
        p == SubSeq(s, 1, q - 1)
    IN [ok |-> TRUE,
        host |-> host,
        path |-> IF p = <<>> THEN <<Sep>> ELSE p,
        hasQuery |-> q <= Len(s),
        query |-> Drop(s, q)]

\* After the scheme, or after a leading "//" of a relative reference: every
\* further slash is skipped, then the authority runs to the next "/" or "?".
\* An empty host is a failure.
ParseAuthority(s) ==
    LET t == SkipSlashes(s)
        e == IndexOf(t, {Sep, "?"}, 1)
        host == SubSeq(t, 1, e - 1)
    IN IF host = <<>> THEN InvalidUrl ELSE ParsePathQuery(Drop(t, e - 1), host)

ParseAbsolute(s) ==
    IF s # <<>> /\ s[1] = Scheme THEN ParseAuthority(Tail(s)) ELSE InvalidUrl

\* The directory of a path: up to and including its last separator.
RECURSIVE DirName(_)
DirName(p) ==
    IF p = <<>> THEN <<Sep>>
    ELSE IF p[Len(p)] = Sep THEN p
    ELSE DirName(SubSeq(p, 1, Len(p) - 1))

ParseRelative(s, base) ==
    IF s = <<>> THEN base
    ELSE IF s[1] = Scheme
        THEN IF StartsWith(Tail(s), <<Sep, Sep>>) THEN ParseAuthority(Tail(s))
             ELSE IF Len(s) >= 2 /\ s[2] = Sep THEN ParsePathQuery(Tail(s), base.host)
             ELSE ParsePathQuery(DirName(base.path) \o Tail(s), base.host)
    ELSE IF StartsWith(s, <<Sep, Sep>>) THEN ParseAuthority(s)
    ELSE IF s[1] = Sep THEN ParsePathQuery(s, base.host)
    ELSE IF s[1] = "?" THEN [base EXCEPT !.hasQuery = TRUE, !.query = Tail(s)]
    ELSE ParsePathQuery(DirName(base.path) \o s, base.host)

\* new URL(input, base): the base is parsed first and its failure throws.
NewURL(input, base) ==
    LET b == ParseAbsolute(base)
    IN IF b.ok THEN ParseRelative(input, b) ELSE InvalidUrl

\* URL.prototype.toString
Href(u) ==
    <<Scheme, Sep, Sep>> \o u.host \o u.path
        \o (IF u.hasQuery THEN <<"?">> \o u.query ELSE <<>>)

\* application/x-www-form-urlencoded serialisation of one character.
FormEncodeChar(ch) ==
    CASE ch = "/" -> <<"%", "2", "F">>
      [] ch = "?" -> <<"%", "3", "F">>
      [] ch = " " -> <<"+">>
      [] OTHER -> <<ch>>

RECURSIVE FormEncode(_)
FormEncode(s) == IF s = <<>> THEN <<>> ELSE FormEncodeChar(s[1]) \o FormEncode(Tail(s))

\* URLSearchParams(record).toString(): name=value joined by "&", in the
\* order of the record's own keys.
RECURSIVE SearchParamsToStringReversed(_)
SearchParamsToStringReversed(pairs) ==
    IF pairs = <<>> THEN <<>>
    ELSE IF Len(pairs) = 1 THEN FormEncode(pairs[1].k) \o <<"=">> \o FormEncode(pairs[1].v)
    ELSE SearchParamsToStringReversed(Tail(pairs)) \o <<"&">>
             \o FormEncode(pairs[1].k) \o <<"=">> \o FormEncode(pairs[1].v)

RECURSIVE SearchParamsToString(_)
SearchParamsToString(pairs) ==
    IF pairs = <<>> THEN <<>>
    ELSE IF Len(pairs) = 1 THEN FormEncode(pairs[1].k) \o <<"=">> \o FormEncode(pairs[1].v)
    ELSE FormEncode(pairs[1].k) \o <<"=">> \o FormEncode(pairs[1].v) \o <<"&">>
             \o SearchParamsToString(Tail(pairs))

\* The search setter: the empty string removes the query, anything else
\* (less one leading "?") becomes it.
SetSearch(u, value) ==
    IF value = <<>> THEN [u EXCEPT !.hasQuery = FALSE, !.query = <<>>]
    ELSE [u EXCEPT !.hasQuery = TRUE,
                   !.query = IF value[1] = "?" THEN Tail(value) ELSE value]

(***************************************************************************)
(* Query parameter arguments: undefined (absent), false, null, or a        *)
(* mapping given as its key/value pairs in insertion order.                *)
(***************************************************************************)
Param(kind, pairs) == [kind |-> kind, pairs |-> pairs]

Undefined == Param("undefined", <<>>)

KV(k, v) == [k |-> k, v |-> v]

\* JavaScript truthiness of a params value: every object is truthy.
Truthy(p) == p.kind = "map"

(***************************************************************************)
(* Client.buildUrl                                                         *)
(***************************************************************************)
\* The destructuring default: params = {} applies to undefined only.
DefaultParams(p) == IF p.kind = "undefined" THEN Param("map", <<>>) ELSE p

BuildUrl(c, path, options) ==
    LET params == DefaultParams(options.params)
        segs == (IF c.locale # <<>> /\ options.withLocale THEN <<c.locale>> ELSE <<>>)
                \o (IF c.basePath # <<>> /\ options.withBasePath THEN <<c.basePath>> ELSE <<>>)
                \o <<path>>
        url == NewURL(ReplaceAll(Join(segs, Sep), <<Sep, Sep>>, <<Sep>>), c.baseUrl)
    IN IF ~url.ok THEN url
       ELSE IF Truthy(params) THEN SetSearch(url, SearchParamsToString(params.pairs))
       ELSE url

Options(params, withBasePath, withLocale) ==
    [params |-> params, withBasePath |-> withBasePath, withLocale |-> withLocale]

(***************************************************************************)
(* Values that travel through a call: decoded JSON bodies, errors, and     *)
(* what the hooks return.  emb is the value under the top-level            *)
(* `_embedded` key ("absent" when the value has no such key); then is the  *)
(* fulfilment value of a promise ("none" for everything else).             *)
(***************************************************************************)
V(tag) == [tag |-> tag, emb |-> "absent", then |-> "none"]

Envelope(inner) == [tag |-> "object", emb |-> inner, then |-> "none"]

PromiseOf(tag) == [tag |-> "promise", emb |-> "absent", then |-> tag]

FalsyTags == {"null", "false", "zero", "empty", "undefined"}

\* JavaScript truthiness of a value.
IsTruthy(v) == v.tag \notin FalsyTags

\* json?._embedded
EmbeddedOf(json) == IF json.emb = "absent" THEN V("undefined") ELSE V(json.emb)

\* What an async function's promise settles to when the function returns v:
\* a returned promise is adopted, any other value is the fulfilment value.
Adopt(v) == IF v.then = "none" THEN v ELSE V(v.then)

TypeError == V("TypeError")

(***************************************************************************)
(* The hooks, by behaviour.  threw: the hook threw val; otherwise it       *)
(* returned val.                                                           *)
(***************************************************************************)
Returned(v) == [threw |-> FALSE, val |-> v]

Threw(v) == [threw |-> TRUE, val |-> v]

OnErrorHooks == {"noop", "value", "throws"}

CallOnError(hook, error) ==
    CASE hook = "noop" -> Returned(V("undefined"))
      [] hook = "value" -> Returned(V("recovered"))
      [] OTHER -> Threw(V("EHook"))

OnResponseHooks == {"identity", "sentinel", "promise", "throws"}

CallOnResponse(hook, json) ==
    CASE hook = "identity" -> Returned(json)
      [] hook = "sentinel" -> Returned(V("sentinel"))
      [] hook = "promise" -> Returned(PromiseOf("sentinel"))
      [] OTHER -> Threw(V("EHook"))

(***************************************************************************)
(* Transport responses.  shape "json": the response has a json() method    *)
(* (decodes tells whether it fulfils with body or rejects); "data": the    *)
(* body is under the data field; "neither": it has neither; "null": the    *)
(* transport fulfilled with null.                                          *)
(***************************************************************************)
Response(shape, body, decodes) == [shape |-> shape, body |-> body, decodes |-> decodes]

NoResponse == Response("none", V("undefined"), FALSE)

(***************************************************************************)
(* Arguments of request(url): a URL object, a string, or undefined.        *)
(***************************************************************************)
UrlArg(u) == [kind |-> "URL", url |-> u, text |-> <<>>]

StringArg(s) == [kind |-> "string", url |-> InvalidUrl, text |-> s]

UndefinedArg == [kind |-> "undefined", url |-> InvalidUrl, text |-> <<>>]

\* url.toString()
UrlToString(arg) == IF arg.kind = "URL" THEN Href(arg.url) ELSE arg.text

(***************************************************************************)
(* One call of a client operation.                                         *)
(*   pc: idle, awaitFetch (suspended at line 90), awaitJson (suspended at  *)
(*       line 106), resolved, rejected (the returned promise settled),     *)
(*       threw (the operation threw before returning a promise)            *)
(*   fetched: the transport invocations, onErrorArgs / onResponseArgs:     *)
(*   the hook invocations, each in order; transportError: what the         *)
(*   transport threw or rejected with (undefined when it did neither);     *)
(*   issued: the configuration in effect when the operation was called (a  *)
(*   record of the history, which no operation reads)                      *)
(***************************************************************************)
NoConfig ==
    [basePath |-> <<>>, baseUrl |-> <<>>, fetchClient |-> "none", fetchOptions |-> "none",
     locale |-> <<>>, onError |-> "none", onResponse |-> "none", removeEmbedded |-> FALSE]

IdleCall ==
    [pc |-> "idle", op |-> "none", input |-> UndefinedArg, params |-> Undefined,
     fetched |-> <<>>, transportError |-> V("undefined"), response |-> NoResponse,
     onErrorArgs |-> <<>>, onResponseArgs |-> <<>>,
     returned |-> V("undefined"), value |-> V("undefined"), issued |-> NoConfig]

\* request, lines 91-94: the catch block.
CatchSwallows(call, c, error) ==
    LET r == CallOnError(c.onError, error)
    IN [call EXCEPT !.onErrorArgs = Append(@, error),
                    !.pc = IF r.threw THEN "rejected" ELSE "resolved",
                    !.value = r.val]

Catch(call, c, error) ==
    LET r == CallOnError(c.onError, error)
    IN [call EXCEPT !.onErrorArgs = Append(@, error),
                    !.pc = "rejected",
                    !.value = IF r.threw THEN r.val ELSE error]

\* handleRequestResponse, lines 108-112, once the body is decoded.
NormalizeAsIssued(call, c, json) ==
    LET body == IF call.issued.removeEmbedded /\ IsTruthy(EmbeddedOf(json))
                THEN EmbeddedOf(json) ELSE json
        r == CallOnResponse(call.issued.onResponse, body)
    IN [call EXCEPT !.onResponseArgs = Append(@, body),
                    !.returned = r.val,
                    !.pc = IF r.threw THEN "rejected" ELSE "resolved",
                    !.value = IF r.threw THEN r.val ELSE Adopt(r.val)]

NormalizeSkipsRemoval(call, c, json) ==
    LET r == CallOnResponse(c.onResponse, json)
    IN [call EXCEPT !.onResponseArgs = Append(@, json),
                    !.returned = r.val,
                    !.pc = IF r.threw THEN "rejected" ELSE "resolved",
                    !.value = IF r.threw THEN r.val ELSE Adopt(r.val)]

Normalize(call, c, json) ==
    LET body == IF c.removeEmbedded /\ IsTruthy(EmbeddedOf(json))
                THEN EmbeddedOf(json) ELSE json
        r == CallOnResponse(c.onResponse, body)
    IN [call EXCEPT !.onResponseArgs = Append(@, body),
                    !.returned = r.val,
                    !.pc = IF r.threw THEN "rejected" ELSE "resolved",
                    !.value = IF r.threw THEN r.val ELSE Adopt(r.val)]

\* response?.data
DataOfWholeResponse(resp) == IF resp.shape = "data" THEN V("response") ELSE V("undefined")

DataOf(resp) == IF resp.shape = "data" THEN resp.body ELSE V("undefined")

\* handleRequestResponse, line 106, up to the await.
HandleRequestResponse(call, c, resp) ==
    IF resp.shape = "null"
    THEN [call EXCEPT !.response = resp, !.pc = "rejected", !.value = TypeError]
    ELSE IF resp.shape = "json"
    THEN [call EXCEPT !.response = resp, !.pc = "awaitJson"]
    ELSE Normalize([call EXCEPT !.response = resp], c, DataOf(resp))

\* handleRequestResponse resumed after await response.json().
ResumeJsonCaught(call, c) ==
    IF call.response.decodes THEN Normalize(call, c, call.response.body)
    ELSE Catch(call, c, V("EDecode"))

ResumeJson(call, c) ==
    IF call.response.decodes THEN Normalize(call, c, call.response.body)
    ELSE [call EXCEPT !.pc = "rejected", !.value = V("EDecode")]

\* request, lines 87-90: up to the await.  thrown is the error the transport
\* throws synchronously, or "pending" when it returns a promise.
Fetched(c, text) == [client |-> c.fetchClient, url |-> text, opts |-> c.fetchOptions]

StartRequest(call, c, arg, thrown) ==
    IF arg.kind = "undefined" THEN Catch(call, c, TypeError)
    ELSE LET sent == [call EXCEPT !.fetched = Append(@, Fetched(c, UrlToString(arg)))]
         IN IF thrown = "pending" THEN [sent EXCEPT !.pc = "awaitFetch"]
            ELSE Catch([sent EXCEPT !.transportError = V(thrown)], c, V(thrown))

\* A convenience operation: buildUrl throws before request is entered.
BuildAndRequestCaught(call, c, path, options, thrown) ==
    LET url == BuildUrl(c, path, options)
    IN IF ~url.ok THEN Catch(call, c, TypeError)
       ELSE StartRequest(call, c, UrlArg(url), thrown)

BuildAndRequest(call, c, path, options, thrown) ==
    LET url == BuildUrl(c, path, options)
    IN IF ~url.ok THEN [call EXCEPT !.pc = "threw", !.value = TypeError]
       ELSE StartRequest(call, c, UrlArg(url), thrown)

JsonSuffix == <<".json">>

CallIds == 1..MaxCalls

Begin(c, op, text, params) ==
    [calls[c] EXCEPT !.op = op, !.input = StringArg(text), !.params = params,
                     !.issued = cfg]

Request(c, arg, thrown) ==
    /\ calls[c].pc = "idle"
    /\ calls' = [calls EXCEPT ![c] =
                    StartRequest([@ EXCEPT !.op = "request", !.input = arg, !.issued = cfg],
                                 cfg, arg, thrown)]
    /\ UNCHANGED <<cfg, built>>

GetPageByPathBlanksPrefixes(c, path, thrown) ==
    /\ calls[c].pc = "idle"
    /\ calls' = [calls EXCEPT ![c] =
                    BuildAndRequest(Begin(c, "getPageByPath", path, Undefined), cfg,
                                    path \o JsonSuffix,
                                    Options(Undefined, FALSE, FALSE), thrown)]
    /\ cfg' = [cfg EXCEPT !.basePath = <<>>, !.locale = <<>>]
    /\ UNCHANGED built

GetPageByPath(c, path, thrown) ==
    /\ calls[c].pc = "idle"
    /\ calls' = [calls EXCEPT ![c] =
                    BuildAndRequest(Begin(c, "getPageByPath", path, Undefined), cfg,
                                    path \o JsonSuffix,
                                    Options(Undefined, FALSE, FALSE), thrown)]
    /\ UNCHANGED <<cfg, built>>

GetNavigationByKey(c, key, params, thrown) ==
    /\ calls[c].pc = "idle"
    /\ calls' = [calls EXCEPT ![c] =
                    BuildAndRequest(Begin(c, "getNavigationByKey", key, params), cfg,
                                    <<Sep, "navigations", Sep>> \o key,
                                    Options(params, TRUE, TRUE), thrown)]
    /\ UNCHANGED <<cfg, built>>

GetSnippetByArea(c, area, params, thrown) ==
    /\ calls[c].pc = "idle"
    /\ calls' = [calls EXCEPT ![c] =
                    BuildAndRequest(Begin(c, "getSnippetByArea", area, params), cfg,
                                    <<Sep, "snippet-areas", Sep>> \o area,
                                    Options(params, TRUE, TRUE), thrown)]
    /\ UNCHANGED <<cfg, built>>

Search(c, query, thrown) ==
    /\ calls[c].pc = "idle"
    /\ calls' = [calls EXCEPT ![c] =
                    BuildAndRequest(Begin(c, "search", query, Undefined), cfg,
                                    <<Sep, "search">>,
                                    Options(Param("map", <<KV(<<"q">>, query)>>), TRUE, TRUE),
                                    thrown)]
    /\ UNCHANGED <<cfg, built>>

\* The transport's promise rejects: request resumes in its catch block.
FetchRejectsAll(c, error) ==
    /\ calls[c].pc = "awaitFetch"
    /\ calls' = [d \in DOMAIN calls |->
                    IF calls[d].pc = "awaitFetch"
                    THEN Catch([calls[d] EXCEPT !.transportError = V(error)], cfg, V(error))
                    ELSE calls[d]]
    /\ UNCHANGED <<cfg, built>>

FetchRejects(c, error) ==
    /\ calls[c].pc = "awaitFetch"
    /\ calls' = [calls EXCEPT ![c] =
                    Catch([@ EXCEPT !.transportError = V(error)], cfg, V(error))]
    /\ UNCHANGED <<cfg, built>>

\* The transport's promise fulfils: request resumes at line 96.
FetchFulfils(c, resp) ==
    /\ calls[c].pc = "awaitFetch"
    /\ calls' = [calls EXCEPT ![c] = HandleRequestResponse(@, cfg, resp)]
    /\ UNCHANGED <<cfg, built>>

\* The promise of response.json() settles: handleRequestResponse resumes.
JsonSettles(c) ==
    /\ calls[c].pc = "awaitJson"
    /\ calls' = [calls EXCEPT ![c] = ResumeJson(@, cfg)]
    /\ UNCHANGED <<cfg, built>>

\* A direct call of buildUrl.
NoBuilt ==
    [called |-> FALSE, path |-> <<>>, options |-> Options(Undefined, TRUE, TRUE),
     url |-> InvalidUrl]

BuildUrlCall(path, options) ==
    /\ ~built.called
    /\ built' = [called |-> TRUE, path |-> path, options |-> options,
                 url |-> BuildUrl(cfg, path, options)]
    /\ UNCHANGED <<cfg, calls>>

\* The owner assigns a field of the client between two steps of its calls.
Assign(field, value) ==
    /\ cfg[field] # value
    /\ cfg' = [cfg EXCEPT ![field] = value]
    /\ UNCHANGED <<built, calls>>

(***************************************************************************)
(* Construction: the constructor stores its options and validates none.    *)
(***************************************************************************)
Origin == <<Scheme, Sep, Sep, "h">>

BaseHost == <<"h">>

Client(options) ==
    [basePath |-> options.basePath, baseUrl |-> options.baseUrl,
     fetchClient |-> options.fetchClient, fetchOptions |-> options.fetchOptions,
     locale |-> options.locale, onError |-> options.onError,
     onResponse |-> options.onResponse, removeEmbedded |-> options.removeEmbedded]

\* The documented defaults, with the origin of the page as base URL.
Defaults ==
    [basePath |-> <<Sep, "api">>, baseUrl |-> Origin, fetchClient |-> "fetch",
     fetchOptions |-> "optionsA", locale |-> <<>>, onError |-> "noop",
     onResponse |-> "identity", removeEmbedded |-> FALSE]

(***************************************************************************)
(* Inputs.                                                                 *)
(***************************************************************************)
Idle == [c \in CallIds |-> IdleCall]

\* An invalid base URL: it has no scheme.
InvalidBase == <<"h">>

BaseUrls == {Origin, InvalidBase}

BasePaths == {<<>>, <<Sep, "b">>, <<Sep, "b", Sep>>}

Locales == {<<>>, <<"e">>}

ParamChoices ==
    {Undefined, Param("false", <<>>), Param("null", <<>>), Param("map", <<>>),
     Param("map", <<KV(<<"x">>, <<"a">>)>>),
     Param("map", <<KV(<<"x">>, <<Sep>>)>>),
     Param("map", <<KV(<<"x">>, <<"a">>), KV(<<"y">>, <<"b">>)>>),
     Param("map", <<KV(<<"y">>, <<"b">>), KV(<<"x">>, <<"a">>)>>)}

Bodies ==
    {V("null"), V("object")}
        \cup {Envelope(inner) : inner \in {"items", "null", "false", "zero", "empty"}}

Responses ==
    {Response("json", body, TRUE) : body \in Bodies}
        \cup {Response("data", body, TRUE) : body \in Bodies}
        \cup {Response("json", V("undefined"), FALSE),
              Response("neither", V("undefined"), TRUE),
              Response("null", V("undefined"), TRUE)}

\* A URL object made by the caller.
SomeUrl == ParsePathQuery(<<Sep, "a">>, BaseHost)

(***************************************************************************)
(* Spec: the request and response pipeline under every combination of      *)
(* hooks and removeEmbedded, with the documented URL configuration.        *)
(***************************************************************************)
Init ==
    /\ cfg \in {Client([Defaults EXCEPT !.onError = e, !.onResponse = r,
                                        !.removeEmbedded = x]) :
                    e \in OnErrorHooks, r \in OnResponseHooks, x \in BOOLEAN}
    /\ built = NoBuilt
    /\ calls = Idle

Next ==
    \E c \in CallIds :
        \/ \E arg \in {UrlArg(SomeUrl), UndefinedArg}, t \in {"pending", "E1"} :
               Request(c, arg, t)
        \/ \E t \in {"pending", "E1"} : GetPageByPath(c, <<Sep, "a">>, t)
        \/ \E t \in {"pending", "E1"} : GetNavigationByKey(c, <<"a">>, Undefined, t)
        \/ \E t \in {"pending", "E1"} : GetSnippetByArea(c, <<"a">>, Undefined, t)
        \/ \E t \in {"pending", "E1"} : Search(c, <<"a">>, t)
        \/ FetchRejects(c, "E2")
        \/ \E resp \in Responses : FetchFulfils(c, resp)
        \/ JsonSettles(c)

Spec == Init /\ [][Next]_vars

(***************************************************************************)
(* SpecTarget: what the operations send to the transport, under every URL  *)
(* configuration, with the default hooks.                                  *)
(***************************************************************************)
InitTarget ==
    /\ cfg \in {Client([Defaults EXCEPT !.baseUrl = u, !.basePath = b, !.locale = l,
                                        !.fetchOptions = o]) :
                    u \in BaseUrls, b \in BasePaths, l \in Locales,
                    o \in {"optionsA", "optionsB"}}
    /\ built = NoBuilt
    /\ calls = Idle

RequestArgs ==
    {UrlArg(SomeUrl), StringArg(Origin \o <<Sep, "a">>), StringArg(<<Sep, "a">>)}

TargetResponses == {Response("data", V("object"), TRUE), Response("json", V("object"), TRUE)}

NextTarget ==
    \/ \E c \in CallIds :
        \/ \E arg \in RequestArgs : Request(c, arg, "pending")
        \/ \E p \in {<<Sep, "a">>, <<Sep, "a", Sep, "a">>} : GetPageByPath(c, p, "pending")
        \/ \E p \in {Undefined, Param("map", <<KV(<<"x">>, <<"a">>)>>)} :
               GetNavigationByKey(c, <<"a">>, p, "pending")
        \/ GetSnippetByArea(c, <<"a">>, Undefined, "pending")
        \/ \E q \in {<<"a">>, <<"a", "a">>} : Search(c, q, "pending")
        \/ FetchRejects(c, "E1")
        \/ \E resp \in TargetResponses : FetchFulfils(c, resp)
        \/ JsonSettles(c)
    \/ BuildUrlCall(<<Sep, "a">>, Options(Undefined, TRUE, TRUE))

SpecTarget == InitTarget /\ [][NextTarget]_vars

(***************************************************************************)
(* SpecUrl: buildUrl as a function of the configuration and its arguments. *)
(***************************************************************************)
InitUrl ==
    /\ cfg \in {Client([Defaults EXCEPT !.baseUrl = u, !.basePath = b, !.locale = l]) :
                    u \in BaseUrls, b \in BasePaths, l \in Locales}
    /\ built = NoBuilt
    /\ calls = Idle

NextUrl ==
    /\ ~built.called
    /\ \E path \in Strs(PathChars, MaxPathLen), params \in ParamChoices,
          withBasePath \in BOOLEAN, withLocale \in BOOLEAN :
           BuildUrlCall(path, Options(params, withBasePath, withLocale))

SpecUrl == InitUrl /\ [][NextUrl]_vars

(***************************************************************************)
(* Several calls on one client, none awaited before the next is issued;    *)
(* the transport settles them in any order and the configuration stays as  *)
(* constructed.                                                            *)
(***************************************************************************)
FlightIds == 1..MaxInFlight

IdleFlight == [c \in FlightIds |-> IdleCall]

FlightResponses ==
    {Response("data", V("object"), TRUE), Response("json", Envelope("items"), TRUE),
     Response("json", V("object"), FALSE)}

InitFlight ==
    /\ cfg \in {Client([Defaults EXCEPT !.onResponse = r, !.removeEmbedded = x]) :
                    r \in {"identity", "sentinel"}, x \in BOOLEAN}
    /\ built = NoBuilt
    /\ calls = IdleFlight

NextFlight ==
    \E c \in FlightIds :
        \/ Request(c, UrlArg(SomeUrl), "pending")
        \/ GetNavigationByKey(c, <<"a">>, Undefined, "pending")
        \/ \E error \in {"E1", "E2"} : FetchRejects(c, error)
        \/ \E resp \in FlightResponses : FetchFulfils(c, resp)
        \/ JsonSettles(c)

SpecFlight == InitFlight /\ [][NextFlight]_vars

(***************************************************************************)
(* The owner reassigns fields of the client between the steps of its       *)
(* calls, as the tests do around an awaited call.                          *)
(***************************************************************************)
Assignments ==
    {<<"removeEmbedded", x>> : x \in BOOLEAN}
        \cup {<<"fetchOptions", o>> : o \in {"optionsA", "optionsB"}}

OwnerResponses ==
    {Response("data", Envelope("items"), TRUE), Response("json", Envelope("items"), TRUE)}

InitOwner ==
    /\ cfg = Client(Defaults)
    /\ built = NoBuilt
    /\ calls = Idle

NextOwner ==
    \/ \E a \in Assignments : Assign(a[1], a[2])
    \/ BuildUrlCall(<<Sep, "a">>, Options(Undefined, TRUE, TRUE))
    \/ \E c \in CallIds :
        \/ \E thrown \in {"pending", "E1"} : Request(c, UrlArg(SomeUrl), thrown)
        \/ GetPageByPath(c, <<Sep, "a">>, "pending")
        \/ GetNavigationByKey(c, <<"a">>, Undefined, "pending")
        \/ GetSnippetByArea(c, <<"a">>, Undefined, "pending")
        \/ Search(c, <<"a">>, "pending")
        \/ FetchRejects(c, "E2")
        \/ \E resp \in OwnerResponses : FetchFulfils(c, resp)
        \/ JsonSettles(c)

SpecOwner == InitOwner /\ [][NextOwner]_vars

(***************************************************************************)
(* One operation, called as the tests call it, with the owner reassigning  *)
(* the fields request and handleRequestResponse read while it is pending.  *)
(***************************************************************************)
PendingAssignments ==
    Assignments
        \cup {<<"onResponse", r>> : r \in {"identity", "sentinel"}}
        \cup {<<"onError", e>> : e \in {"noop", "throws"}}

NextPending ==
    \/ \E a \in PendingAssignments : Assign(a[1], a[2])
    \/ \E c \in CallIds :
        \/ GetNavigationByKey(c, <<"a">>, Undefined, "pending")
        \/ FetchRejects(c, "E2")
        \/ \E resp \in OwnerResponses : FetchFulfils(c, resp)
        \/ JsonSettles(c)

SpecPending == InitOwner /\ [][NextPending]_vars

(***************************************************************************)
(* Properties.                                                             *)
(***************************************************************************)
Convenience == {"getPageByPath", "getNavigationByKey", "getSnippetByArea", "search"}

TransportFailed(call) == call.transportError # V("undefined")

\* The body the response carries, however it carries it.
Payload(call) ==
    IF call.response.shape \in {"json", "data"} THEN call.response.body ELSE V("undefined")

Normalized(call) == call.onResponseArgs # <<>>

(* C1: whenever the transport call of a request throws or rejects with E,
   onError has been invoked exactly once, with E, by the time the call has
   failed; the transport was invoked once, onResponse never, and the call is
   rejected with E itself.  (The claim as stated.) *)
C1_RejectsWithTransportError ==
    \A c \in CallIds :
        TransportFailed(calls[c]) =>
            /\ calls[c].onErrorArgs = <<calls[c].transportError>>
            /\ Len(calls[c].fetched) = 1
            /\ calls[c].onResponseArgs = <<>>
            /\ calls[c].pc = "rejected"
            /\ calls[c].value = calls[c].transportError

(* C1, amended: as above, except that the call is rejected with E when
   onError returns (whatever it returns), and with the error onError throws
   when it throws; the call never succeeds. *)
C1_RejectsAfterOnError ==
    \A c \in CallIds :
        TransportFailed(calls[c]) =>
            /\ calls[c].onErrorArgs = <<calls[c].transportError>>
            /\ Len(calls[c].fetched) = 1
            /\ calls[c].onResponseArgs = <<>>
            /\ calls[c].pc = "rejected"
            /\ cfg.onError # "throws" => calls[c].value = calls[c].transportError
            /\ cfg.onError = "throws" => calls[c].value = V("EHook")

C1_Witness ==
    \E c \in CallIds :
        /\ TransportFailed(calls[c])
        /\ calls[c].op = "getNavigationByKey"
        /\ cfg.onError = "value"
        /\ calls[c].pc = "rejected"

(* C2: the value passed to onResponse is the value under the top-level
   _embedded key when removeEmbedded is set and the decoded body has that
   key, whatever the key holds, and the decoded body itself otherwise; a body
   without the key fails no call.  (The claim as stated.) *)
C2_EmbeddedRemovedWhenPresent ==
    \A c \in CallIds :
        /\ Normalized(calls[c]) =>
              calls[c].onResponseArgs =
                  <<IF cfg.removeEmbedded /\ Payload(calls[c]).emb # "absent"
                    THEN V(Payload(calls[c]).emb) ELSE Payload(calls[c])>>
        /\ (Normalized(calls[c]) /\ Payload(calls[c]).emb = "absent"
                /\ cfg.onResponse # "throws") => calls[c].pc = "resolved"

(* C3: a call that succeeds has invoked onResponse exactly once, on the body
   left by the envelope removal, and its promise is fulfilled with exactly
   what onResponse returned.  (The claim as stated.) *)
C3_ResolvesToHookReturn ==
    \A c \in CallIds :
        calls[c].pc = "resolved" =>
            /\ Len(calls[c].onResponseArgs) = 1
            /\ calls[c].value = calls[c].returned

(* C3, amended: a call that succeeds has invoked onResponse exactly once and
   onError never; onResponse received the decoded body when removeEmbedded
   is off or the body has no _embedded key, the value under _embedded when
   removeEmbedded is on and that value is truthy, and one of the two
   otherwise; the promise is fulfilled with what onResponse returned, or,
   when onResponse returned a promise, with that promise's fulfilment value.
   A hook that returns a fixed sentinel fixes the result whatever the body. *)
C3_ResolvesToAdoptedHookReturn ==
    \A c \in CallIds :
        calls[c].pc = "resolved" =>
            LET body == Payload(calls[c])
                arg == calls[c].onResponseArgs[1]
                ret == calls[c].returned
            IN /\ Len(calls[c].onResponseArgs) = 1
               /\ calls[c].onErrorArgs = <<>>
               /\ (~cfg.removeEmbedded \/ body.emb = "absent") => arg = body
               /\ (cfg.removeEmbedded /\ body.emb = "items") => arg = V("items")
               /\ arg \in {body, V(body.emb)}
               /\ cfg.onResponse = "identity" => ret = arg
               /\ cfg.onResponse = "sentinel" => ret = V("sentinel")
               /\ cfg.onResponse = "promise" => ret = PromiseOf("sentinel")
               /\ ret.then = "none" => calls[c].value = ret
               /\ ret.then # "none" => calls[c].value = V(ret.then)

C3_Witness ==
    \E c \in CallIds :
        /\ calls[c].pc = "resolved"
        /\ calls[c].op = "search"
        /\ cfg.onResponse = "promise"
        /\ cfg.removeEmbedded
        /\ Payload(calls[c]) = Envelope("items")
        /\ calls[c].value = V("sentinel")

\* The call as it was while suspended on the transport.
AtFetch(call) ==
    [call EXCEPT !.pc = "awaitFetch", !.response = NoResponse, !.onResponseArgs = <<>>,
                 !.returned = V("undefined"), !.value = V("undefined")]

\* handleRequestResponse run to completion on a response.
Complete(call, c, resp) ==
    LET h == HandleRequestResponse(call, c, resp)
    IN IF h.pc = "awaitJson" THEN ResumeJson(h, c) ELSE h

OtherShape(resp) == [resp EXCEPT !.shape = IF @ = "json" THEN "data" ELSE "json"]

Outcome(call) == <<call.pc, call.onResponseArgs, call.returned, call.value>>

(* C4: a finished call whose response carried payload P behind a json()
   method, or under its data field, ended as the same call would have ended
   on the response of the other shape carrying P: same argument to
   onResponse, same settled value. *)
C4_ShapesAgree ==
    \A c \in CallIds :
        (/\ calls[c].pc \in {"resolved", "rejected"}
         /\ calls[c].response.shape \in {"json", "data"}
         /\ calls[c].response.decodes) =>
            Outcome(calls[c])
                = Outcome(Complete(AtFetch(calls[c]), cfg, OtherShape(calls[c].response)))

C4_Witness ==
    \E c \in CallIds :
        /\ calls[c].pc = "resolved"
        /\ calls[c].response = Response("data", Envelope("items"), TRUE)
        /\ cfg.removeEmbedded
        /\ calls[c].onResponseArgs = <<V("items")>>

\* No two adjacent separators.
NoDoubledSep(p) == \A i \in 1..(Len(p) - 1) : ~(p[i] = Sep /\ p[i + 1] = Sep)

Built == built.called /\ built.url.ok

Contains(s, ch) == \E i \in 1..Len(s) : s[i] = ch

(* C5: the path of every URL buildUrl returns starts with one separator and
   holds no two adjacent separators, for every non-empty path argument and
   every configured locale and basePath.  (The claim as stated.) *)
C5_NoDoubledSeparator ==
    Built =>
        /\ built.url.path # <<>>
        /\ built.url.path[1] = Sep
        /\ NoDoubledSep(built.url.path)

\* name=value of each pair, joined by "&", in the order given.
PairsQuery(pairs) ==
    Join([i \in 1..Len(pairs) |->
              FormEncode(pairs[i].k) \o <<"=">> \o FormEncode(pairs[i].v)], "&")

NoParams(p) == p.kind \in {"undefined", "false", "null"} \/ p.pairs = <<>>

(* C6: a URL built with params absent, false, null or an empty mapping has no
   query string, whatever the path; built with a non-empty mapping, its query
   string is the mapping's key=value pairs in insertion order.  (The claim as
   stated.) *)
C6_QueryOnlyFromParams ==
    Built =>
        /\ NoParams(built.options.params) => ~built.url.hasQuery
        /\ ~NoParams(built.options.params) =>
              /\ built.url.hasQuery
              /\ built.url.query = PairsQuery(built.options.params.pairs)

(* C6, amended: with params absent or an empty mapping the URL has no query
   string (one written in the path is dropped); with params false or null
   the URL has the query string written in the path after its first "?"
   (each "//" in it replaced by "/" like in the rest of the path), and none
   when the path has no "?"; with a non-empty mapping the query
   string is the mapping's form-urlencoded key=value pairs, each key once, in
   the order of the mapping's keys. *)
C6_QueryFromParamsOrPath ==
    Built =>
        LET p == built.options.params
            mark == IndexOf(built.path, {"?"}, 1)
        IN /\ (p.kind = "undefined" \/ (p.kind = "map" /\ p.pairs = <<>>)) =>
                  ~built.url.hasQuery
           /\ p.kind \in {"false", "null"} =>
                  /\ built.url.hasQuery = Contains(built.path, "?")
                  /\ built.url.query = ReplaceAll(Drop(built.path, mark), <<Sep, Sep>>, <<Sep>>)
           /\ (p.kind = "map" /\ p.pairs # <<>>) =>
                  /\ built.url.hasQuery
                  /\ built.url.query = PairsQuery(p.pairs)

C6_Witness ==
    /\ Built
    /\ built.options.params = Param("map", <<KV(<<"y">>, <<"b">>), KV(<<"x">>, <<"a">>)>>)
    /\ Contains(built.path, "?")
    /\ built.url.query = <<"y", "=", "b", "&", "x", "=", "a">>

(* C8: every URL buildUrl returns has the authority of the configured
   baseUrl, whatever the path argument.  (The claim as stated.) *)
C8_AuthorityOfBaseUrl ==
    Built => built.url.host = ParseAbsolute(cfg.baseUrl).host

\* A configured segment without its leading and trailing separators.
RECURSIVE DropTrailingSlashes(_)
DropTrailingSlashes(s) ==
    IF s # <<>> /\ s[Len(s)] = Sep THEN DropTrailingSlashes(SubSeq(s, 1, Len(s) - 1)) ELSE s

Segment(s) == DropTrailingSlashes(SkipSlashes(s))

\* The locale segment, then the basePath segment, each when non-empty.
Prefix(c) ==
    (IF c.locale # <<>> THEN <<Sep>> \o Segment(c.locale) ELSE <<>>)
        \o (IF c.basePath # <<>> THEN <<Sep>> \o Segment(c.basePath) ELSE <<>>)

ExpectedTarget(c, call) ==
    c.baseUrl \o
        CASE call.op = "getPageByPath" -> call.input.text \o <<".json">>
          [] call.op = "getNavigationByKey" ->
                 Prefix(c) \o <<Sep, "navigations", Sep>> \o call.input.text
                     \o (IF NoParams(call.params) THEN <<>>
                         ELSE <<"?">> \o PairsQuery(call.params.pairs))
          [] call.op = "getSnippetByArea" ->
                 Prefix(c) \o <<Sep, "snippet-areas", Sep>> \o call.input.text
                     \o (IF NoParams(call.params) THEN <<>>
                         ELSE <<"?">> \o PairsQuery(call.params.pairs))
          [] OTHER -> Prefix(c) \o <<Sep, "search", "?", "q", "=">> \o call.input.text

(* C7: getPageByPath(p) sends the transport to {p}.json on the base URL, with
   neither locale nor basePath and no query string; getNavigationByKey,
   getSnippetByArea and search send it to /navigations/{k},
   /snippet-areas/{a} and /search?q={q} behind the locale segment and then
   the basePath segment, each when non-empty, for every configured locale
   and basePath.  (The claim as stated.) *)
C7_TargetsOfOperations ==
    \A c \in CallIds :
        (calls[c].op \in Convenience /\ calls[c].fetched # <<>>) =>
            calls[c].fetched[1].url = ExpectedTarget(cfg, calls[c])

IsAbsolute(text) == ParseAbsolute(text).ok

(* C9: request, given a URL object or a relative path, invokes the transport
   exactly once, with an absolute URL string and the configured transport
   options, on a client whose baseUrl is valid.  (The claim as stated.) *)
C9_RequestSendsAbsoluteUrl ==
    \A c \in CallIds :
        (calls[c].op = "request" /\ IsAbsolute(cfg.baseUrl)) =>
            /\ Len(calls[c].fetched) = 1
            /\ IsAbsolute(calls[c].fetched[1].url)
            /\ calls[c].fetched[1].opts = cfg.fetchOptions

(* C10: a client whose baseUrl is invalid exists (construction validated
   nothing); buildUrl fails on it, and every convenience operation throws
   that failure to its caller with no transport call and no hook invoked;
   request itself, given a URL, never consults baseUrl and does not fail
   this way. *)
C10_InvalidBaseUrlSurfacesAtCall ==
    ~IsAbsolute(cfg.baseUrl) =>
        /\ built.called => ~built.url.ok
        /\ \A c \in CallIds :
              /\ calls[c].op \in Convenience =>
                    /\ calls[c].pc = "threw"
                    /\ calls[c].value = TypeError
                    /\ calls[c].fetched = <<>>
                    /\ calls[c].onErrorArgs = <<>>
                    /\ calls[c].onResponseArgs = <<>>
              /\ calls[c].op = "request" =>
                    /\ calls[c].pc # "threw"
                    /\ Len(calls[c].fetched) = 1

C10_Witness ==
    /\ ~IsAbsolute(cfg.baseUrl)
    /\ built.called
    /\ \E c \in CallIds : calls[c].op = "getSnippetByArea" /\ calls[c].pc = "threw"

Finished(call) == call.pc \in {"resolved", "rejected"}

\* How a finished call ended, given nothing but its own transport outcome
\* and the configuration.
OwnOutcome(call, c) ==
    IF TransportFailed(call)
    THEN /\ call.pc = "rejected"
         /\ call.onErrorArgs = <<call.transportError>>
         /\ call.onResponseArgs = <<>>
         /\ c.onError = "noop" => call.value = call.transportError
    ELSE /\ call.onErrorArgs = <<>>
         /\ Outcome(call) = Outcome(Complete(AtFetch(call), c, call.response))

(* C11: with several calls in flight on one client and the configuration
   left alone, every finished call ended as its own transport outcome
   determines (the normalization of its own response, or a rejection with
   its own transport error), in whatever order the transport settles the
   calls; and every step, a failure included, changes the record of one
   call only. *)
C11_EachCallItsOwn ==
    /\ [](\A c \in FlightIds : Finished(calls[c]) => OwnOutcome(calls[c], cfg))
    /\ [][\A c, d \in FlightIds :
            c # d /\ calls'[c] # calls[c] => calls'[d] = calls[d]]_vars

C11_Witness ==
    /\ calls[1].pc = "rejected"
    /\ calls[1].transportError = V("E1")
    /\ calls[1].value = V("E1")
    /\ calls[2].pc = "resolved"
    /\ calls[2].fetched # <<>>
    /\ calls[2].response = Response("json", Envelope("items"), TRUE)
    /\ cfg.removeEmbedded /\ cfg.onResponse = "identity"
    /\ calls[2].value = V("items")

\* The step is a step of an operation of the client.
OperationStep == calls' # calls \/ built' # built

(* C12: a step of any operation of the client (buildUrl, request and its
   continuations, the four convenience operations), successful or failing,
   leaves every configuration field as it was, so that the configuration
   only ever changes by the owner's assignments; and a step that invokes
   the transport hands it the transport and the options the client holds
   at that step, unmodified. *)
C12_OperationsLeaveConfiguration ==
    [][OperationStep =>
          /\ cfg' = cfg
          /\ \A c \in CallIds :
                calls'[c].fetched # calls[c].fetched =>
                    /\ Len(calls'[c].fetched) = Len(calls[c].fetched) + 1
                    /\ calls'[c].fetched[Len(calls'[c].fetched)].opts = cfg.fetchOptions
                    /\ calls'[c].fetched[Len(calls'[c].fetched)].client = cfg.fetchClient]_vars

C12_Witness ==
    /\ built.called
    /\ calls[1].pc = "rejected"
    /\ calls[1].op = "getPageByPath"
    /\ calls[1].fetched[1].opts = "optionsB"
    /\ cfg = [Client(Defaults) EXCEPT !.fetchOptions = "optionsB", !.removeEmbedded = TRUE]

\* The transport returned or fulfilled with a response.
TransportSucceeded(call) == call.fetched # <<>> /\ call.response # NoResponse

\* What holds of a call once the transport has succeeded, whatever comes of
\* the decoding and of onResponse.
AfterTransportSuccess(call) ==
    /\ TransportSucceeded(call) => call.onErrorArgs = <<>>
    /\ call.pc = "rejected" /\ call.response.shape = "json" /\ ~call.response.decodes =>
            call.value = V("EDecode") /\ call.onResponseArgs = <<>>
    /\ Normalized(call) /\ cfg.onResponse = "throws" =>
            call.pc = "rejected" /\ call.value = V("EHook")

\* request was handed an argument whose toString cannot be called.
ArgumentFailed(call) ==
    call.pc # "idle" /\ call.op = "request" /\ call.input.kind = "undefined"

(* C13: within one call onError is invoked at most once, and it has been
   invoked if and only if the transport call threw or rejected; a call
   whose transport succeeded and whose JSON decoding rejects, or whose
   onResponse throws, is rejected with that error without onError.  (The
   claim as stated.) *)
C13_OnErrorIffTransportFails ==
    \A c \in CallIds :
        /\ Len(calls[c].onErrorArgs) <= 1
        /\ calls[c].onErrorArgs # <<>> <=> TransportFailed(calls[c])
        /\ AfterTransportSuccess(calls[c])

(* C13, amended: onError is invoked at most once, and it has been invoked
   if and only if the statement at line 90 threw or rejected: the transport
   call, or the evaluation of url.toString() before the transport is
   called, in which case onError receives the TypeError and the transport
   was never invoked.  Decoding and onResponse failures are as stated. *)
C13_OnErrorIffTryBlockFails ==
    \A c \in CallIds :
        /\ Len(calls[c].onErrorArgs) <= 1
        /\ calls[c].onErrorArgs # <<>> <=>
                TransportFailed(calls[c]) \/ ArgumentFailed(calls[c])
        /\ ArgumentFailed(calls[c]) =>
                /\ calls[c].onErrorArgs = <<TypeError>>
                /\ calls[c].fetched = <<>>
                /\ ~TransportFailed(calls[c])
        /\ TransportFailed(calls[c]) => calls[c].onErrorArgs = <<calls[c].transportError>>
        /\ AfterTransportSuccess(calls[c])

C13_Witness ==
    \E c \in CallIds :
        /\ calls[c].pc = "rejected"
        /\ TransportSucceeded(calls[c])
        /\ calls[c].response.shape = "json" /\ ~calls[c].response.decodes
        /\ calls[c].value = V("EDecode")
        /\ cfg.onError = "value"
        /\ calls[c].onErrorArgs = <<>>

\* The request getNavigationByKey sends under configuration c.
NavigationRequest(call, c) ==
    [client |-> c.fetchClient,
     url |-> Href(BuildUrl(c, <<Sep, "navigations", Sep>> \o call.input.text,
                           Options(call.params, TRUE, TRUE))),
     opts |-> c.fetchOptions]

\* The request a call sent is the one its configuration at issue fixes.
SentAsIssued(call) ==
    call.pc # "idle" /\ call.op = "getNavigationByKey" =>
        call.fetched = <<NavigationRequest(call, call.issued)>>

\* A step that hands a body to onResponse, or an error to onError, reads
\* removeEmbedded and the hook as they are at that step.
ReadWhenSettled(before, after) ==
    /\ after.fetched # <<>> => after.fetched = before.fetched \/ before.fetched = <<>>
    /\ after.onResponseArgs # before.onResponseArgs =>
            LET json == Payload(after)
                body == IF cfg.removeEmbedded /\ IsTruthy(EmbeddedOf(json))
                        THEN EmbeddedOf(json) ELSE json
            IN /\ after.onResponseArgs = <<body>>
               /\ after.returned = CallOnResponse(cfg.onResponse, body).val
               /\ after.pc = "resolved" /\ after.value = Adopt(after.returned)
    /\ after.onErrorArgs # before.onErrorArgs =>
            /\ after.onErrorArgs = <<after.transportError>>
            /\ after.pc = "rejected"
            /\ after.value = IF cfg.onError = "throws" THEN V("EHook")
                              ELSE after.transportError

(* C14: the request a call sent (target URL, transport, transport options)
   is the one the configuration in effect when the call was issued fixes,
   whatever the owner assigns while the call is pending; removeEmbedded,
   onResponse and onError are read at the step that uses them, after the
   transport has settled, so a call is normalized (or its error reported)
   with the values the fields hold then. *)
C14_RequestAsIssuedHooksAsSettled ==
    /\ [](\A c \in CallIds : SentAsIssued(calls[c]))
    /\ [][\A c \in CallIds : ReadWhenSettled(calls[c], calls'[c])]_vars

C14_Witness ==
    \E c \in CallIds :
        /\ calls[c].pc = "resolved"
        /\ ~calls[c].issued.removeEmbedded /\ cfg.removeEmbedded
        /\ calls[c].issued.onResponse = "identity" /\ cfg.onResponse = "identity"
        /\ calls[c].issued.fetchOptions = "optionsA" /\ cfg.fetchOptions = "optionsB"
        /\ calls[c].fetched[1].opts = "optionsA"
        /\ calls[c].response = Response("data", Envelope("items"), TRUE)
        /\ calls[c].value = V("items")

====
